---------------------------- MODULE Spec2Model ----------------------------
(***************************************************************************)
(* Model of the Diet Planner API (biman2006/NUTRI_PLAN, src/app): the      *)
(* DietRequest validation model, the DietService calculation class, the    *)
(* POST /diet-plan route and the application's exception handlers.         *)
(*                                                                         *)
(* Numbers.  The program computes with Python floats; the model computes   *)
(* with exact scaled integers:                                             *)
(*     height   centimetres        (1.75 m   is 175)                       *)
(*     weight   grams              (70 kg    is 70000)                     *)
(*     BMI      hundredths         (22.86    is 2286)   after round(x, 2)  *)
(*     BMR, TDEE, protein  tenths  (1673.8   is 16738)  after round(x, 1)  *)
(*     calories, plan bmr/tdee     whole numbers        after round(x)     *)
(*     activity multipliers  thousandths, protein multipliers  tenths.     *)
(* round() is round-half-even on the exact value.  Python rounds the       *)
(* binary value of the float: the two differ only where the exact value    *)
(* is a decimal tie (x.x5) and the float is not exactly that value.  The   *)
(* inputs of the model (Profiles, TieFree) hold no such case, so that on   *)
(* every input of the model the operators below give what the program      *)
(* gives.                                                                  *)
(***************************************************************************)
EXTENDS Integers, Sequences, FiniteSets, TLC

VARIABLES
    request,    \* request[i]: the DietRequest object of slot i (None: none yet)
    user,       \* user[i]: self.user of the DietService instance of slot i
    ret,        \* ret[i]: what the last call on slot i returned or raised
    returned,   \* the (profile, plan) pairs get_complete_plan has returned so far
    pc          \* pc[i]: where the POST /diet-plan request of slot i stands

vars == <<request, user, ret, returned, pc>>

None == [none |-> TRUE]

(***************************************************************************)
(* Bounds of the model.                                                    *)
(***************************************************************************)
MaxInst == 2

Inst == 1 .. MaxInst

(***************************************************************************)
(* str.lower() on the strings the model feeds to the program: the strings  *)
(* holding an upper-case letter are listed, every other string of the      *)
(* model is already lower case.                                            *)
(***************************************************************************)
Lower(s) ==
    CASE s = "MALE" -> "male"
      [] s = "Female" -> "female"
      [] s = "SEDENTARY" -> "sedentary"
      [] s = "Very_Active" -> "very_active"
      [] s = "CUT" -> "cut"
      [] s = "Bulk" -> "bulk"
      [] OTHER -> s

\* dict.get(key, default)
DictGet(d, key, default) == IF key \in DOMAIN d THEN d[key] ELSE default

\* {}: the dictionary without keys
EmptyDict == [k \in {} |-> ""]

Abs(x) == IF x < 0 THEN -x ELSE x

(***************************************************************************)
(* round(): n/d (d > 0) rounded to the nearest integer, a tie to the even  *)
(* one.  \div and % are floor division and its non-negative remainder.     *)
(***************************************************************************)
RoundHalfEven(n, d) ==
    LET q == n \div d
        r == n % d
    IN  IF 2 * r > d THEN q + 1
        ELSE IF 2 * r < d THEN q
        ELSE IF q % 2 = 0 THEN q ELSE q + 1

(***************************************************************************)
(* DietService class constants.                                            *)
(***************************************************************************)
ACTIVITY_MULTIPLIERS ==
    [sedentary |-> 1200, lightly_active |-> 1375, moderately_active |-> 1550,
     very_active |-> 1725, extra_active |-> 1900]

DefaultActivityMultiplier == 1550

GOAL_ADJUSTMENTS == [maintain |-> 0, cut |-> -500, bulk |-> 300]

PROTEIN_MULTIPLIERS == [maintain |-> 16, cut |-> 22, bulk |-> 18]

DefaultProteinMultiplier == 16

\* (lower, upper, category), bounds in tenths; inf: the bracket has no upper bound
BMI_CATEGORIES ==
    << [lower |-> 0,   upper |-> 185, inf |-> FALSE, category |-> "Underweight"],
       [lower |-> 185, upper |-> 250, inf |-> FALSE, category |-> "Normal weight"],
       [lower |-> 250, upper |-> 300, inf |-> FALSE, category |-> "Overweight"],
       [lower |-> 300, upper |-> 0,   inf |-> TRUE,  category |-> "Obese"] >>

(***************************************************************************)
(* Exceptions (app/exceptions).                                            *)
(***************************************************************************)
CalculationException(message, details) ==
    [class |-> "CalculationException", message |-> message, details |-> details]

Return(v) == [kind |-> "return", value |-> v]

Raise(e) == [kind |-> "raise", exc |-> e]

(***************************************************************************)
(* DietService methods, as functions of self.user (u).                     *)
(***************************************************************************)
\* faulty variant of get_bmi_category: lower < bmi <= upper
get_bmi_category_open_left(num, den) ==
    LET hits == { k \in 1 .. Len(BMI_CATEGORIES) :
                    /\ BMI_CATEGORIES[k].lower * den < 10 * num
                    /\ \/ BMI_CATEGORIES[k].inf
                       \/ 10 * num <= BMI_CATEGORIES[k].upper * den }
    IN  IF hits = {} THEN "Unknown"
        ELSE BMI_CATEGORIES[CHOOSE k \in hits : \A m \in hits : k <= m].category

\* _get_bmi_category(bmi), bmi = num / den with den > 0: the first bracket
\* with lower <= bmi < upper, "Unknown" when there is none.
get_bmi_category(num, den) ==
    LET hits == { k \in 1 .. Len(BMI_CATEGORIES) :
                    /\ BMI_CATEGORIES[k].lower * den <= 10 * num
                    /\ \/ BMI_CATEGORIES[k].inf
                       \/ 10 * num < BMI_CATEGORIES[k].upper * den }
    IN  IF hits = {} THEN "Unknown"
        ELSE BMI_CATEGORIES[CHOOSE k \in hits : \A m \in hits : k <= m].category

\* faulty variant of calculate_bmi: round(bmi_value, 1)
calculate_bmi_one_decimal(u) ==
    IF u.height * u.height = 0
    THEN Raise(CalculationException("Invalid height value for BMI calculation",
                                    [height |-> u.height]))
    ELSE LET num == 10 * u.weight
             den == u.height * u.height
         IN  Return([value    |-> 10 * RoundHalfEven(10 * num, den),
                     category |-> get_bmi_category(num, den)])

\* faulty variant of calculate_bmi: without the except ZeroDivisionError branch,
\* the division by zero ends in the except Exception branch, which gives no
\* details
calculate_bmi_generic_failure(u) ==
    IF u.height * u.height = 0
    THEN Raise(CalculationException("BMI calculation failed: float division by zero",
                                    EmptyDict))
    ELSE LET num == 10 * u.weight
             den == u.height * u.height
         IN  Return([value    |-> RoundHalfEven(100 * num, den),
                     category |-> get_bmi_category(num, den)])

\* faulty variant of calculate_bmi: the category of the rounded value,
\* self._get_bmi_category(round(bmi_value, 2))
calculate_bmi_category_of_rounded(u) ==
    IF u.height * u.height = 0
    THEN Raise(CalculationException("Invalid height value for BMI calculation",
                                    [height |-> u.height]))
    ELSE LET num == 10 * u.weight
             den == u.height * u.height
             value == RoundHalfEven(100 * num, den)
         IN  Return([value    |-> value,
                     category |-> get_bmi_category(value, 100)])

\* calculate_bmi(): weight / height ** 2 is (10 * grams) / cm^2
calculate_bmi(u) ==
    IF u.height * u.height = 0
    THEN Raise(CalculationException("Invalid height value for BMI calculation",
                                    [height |-> u.height]))
    ELSE LET num == 10 * u.weight
             den == u.height * u.height
         IN  Return([value    |-> RoundHalfEven(100 * num, den),
                     category |-> get_bmi_category(num, den)])

\* faulty variant of BmrThousandths: the constants of the two genders swapped
BmrThousandthsSwapped(u) ==
    IF Lower(u.gender) = "male"
    THEN 10 * u.weight + 6250 * u.height - 5000 * u.age - 161000
    ELSE 10 * u.weight + 6250 * u.height - 5000 * u.age + 5000

\* the Mifflin-St Jeor value before rounding, in thousandths
BmrThousandths(u) ==
    IF Lower(u.gender) = "male"
    THEN 10 * u.weight + 6250 * u.height - 5000 * u.age + 5000
    ELSE 10 * u.weight + 6250 * u.height - 5000 * u.age - 161000

\* calculate_bmr(): round(bmr, 1), in tenths
calculate_bmr(u) == RoundHalfEven(BmrThousandths(u), 100)

\* faulty variant of calculate_tdee: an unknown level defaults to sedentary (1.2)
calculate_tdee_default_sedentary(u) ==
    LET bmr == RoundHalfEven(BmrThousandths(u), 100)
        activity_multiplier ==
            DictGet(ACTIVITY_MULTIPLIERS, Lower(u.activity_level),
                    ACTIVITY_MULTIPLIERS.sedentary)
    IN  RoundHalfEven(bmr * activity_multiplier, 1000)

\* calculate_tdee(): round(bmr * activity_multiplier, 1), in tenths
calculate_tdee(u) ==
    LET bmr == calculate_bmr(u)
        activity_multiplier ==
            DictGet(ACTIVITY_MULTIPLIERS, Lower(u.activity_level),
                    DefaultActivityMultiplier)
    IN  RoundHalfEven(bmr * activity_multiplier, 1000)

\* faulty variant of calculate_calories: int(tdee + adjustment), which truncates
calculate_calories_truncated(u) ==
    LET tdee == calculate_tdee(u)
        goal == Lower(u.goal)
        adjustment == DictGet(GOAL_ADJUSTMENTS, goal, 0)
        calories == tdee + 10 * adjustment
    IN  IF calories >= 0 THEN calories \div 10 ELSE -((-calories) \div 10)

\* faulty variant of calculate_calories: int(tdee + adjustment + 0.5), a tie
\* rounded up
calculate_calories_half_up(u) ==
    LET tdee == calculate_tdee(u)
        goal == Lower(u.goal)
        adjustment == DictGet(GOAL_ADJUSTMENTS, goal, 0)
        calories == tdee + 10 * adjustment
    IN  (calories + 5) \div 10

\* calculate_calories(): round(tdee + adjustment)
calculate_calories(u) ==
    LET tdee == calculate_tdee(u)
        goal == Lower(u.goal)
        adjustment == DictGet(GOAL_ADJUSTMENTS, goal, 0)
    IN  RoundHalfEven(tdee + 10 * adjustment, 10)

\* faulty variant of calculate_protein: round(protein), to whole grams
calculate_protein_whole(u) ==
    LET goal == Lower(u.goal)
        multiplier == DictGet(PROTEIN_MULTIPLIERS, goal, DefaultProteinMultiplier)
    IN  10 * RoundHalfEven(u.weight * multiplier, 10000)

\* calculate_protein(): round(weight * multiplier, 1), in tenths
calculate_protein(u) ==
    LET goal == Lower(u.goal)
        multiplier == DictGet(PROTEIN_MULTIPLIERS, goal, DefaultProteinMultiplier)
    IN  RoundHalfEven(u.weight * multiplier, 1000)

meal_plans ==
    [cut |->
        [breakfast |-> <<"Oats 50g + Milk", "2 egg whites and 1 whole egg">>,
         lunch     |-> <<"Rice 150g", "Chicken breast 150g", "Salad">>,
         snacks    |-> <<"Curd 200g", "One seasonal fruit">>,
         dinner    |-> <<"Roti (2 pieces)", "Paneer 100g / Chicken breast 100g",
                         "Vegetables">>],
     bulk |->
        [breakfast |-> <<"Oats 100g + Milk", "4 whole eggs", "3 bananas">>,
         lunch     |-> <<"Rice 250g", "Chicken 200g", "Dal",
                         "Boiled potato (2 pieces)", "Curd 150g">>,
         snacks    |-> <<"Banana shake", "Curd 100g", "Peanut butter",
                         "2 whole eggs">>,
         dinner    |-> <<"Roti (3 pieces)", "Paneer/Chicken 150g", "Vegetables">>],
     maintain |->
        [breakfast |-> <<"Oats 80g + Milk", "3 whole eggs", "2 bananas">>,
         lunch     |-> <<"Rice 200g", "Chicken 100g", "Dal">>,
         snacks    |-> <<"Fruits", "Curd", "1 whole egg">>,
         dinner    |-> <<"Roti (3 pieces)", "Paneer/Chicken 100g", "Dal">>]]

\* faulty variant of generate_diet_chart: goal = self.user.goal, not lower-cased
generate_diet_chart_case_sensitive(u) ==
    DictGet(meal_plans, u.goal, meal_plans.maintain)

\* generate_diet_chart(): meal_plans.get(goal, meal_plans["maintain"])
generate_diet_chart(u) ==
    LET goal == Lower(u.goal)
    IN  DictGet(meal_plans, goal, meal_plans.maintain)

\* get_complete_plan(): the dictionary, or the exception calculate_bmi raises
get_complete_plan(u) ==
    LET bmr == calculate_bmr(u)
        tdee == calculate_tdee(u)
        bmi == calculate_bmi(u)
    IN  IF bmi.kind = "raise" THEN bmi
        ELSE Return([age            |-> u.age,
                     gender         |-> u.gender,
                     activity_level |-> u.activity_level,
                     goal           |-> u.goal,
                     bmi            |-> bmi.value,
                     metabolism     |-> [bmr  |-> RoundHalfEven(bmr, 10),
                                         tdee |-> RoundHalfEven(tdee, 10)],
                     macros         |-> [calories |-> calculate_calories(u),
                                         protein  |-> calculate_protein(u)],
                     diet_chart     |-> generate_diet_chart(u)])

(***************************************************************************)
(* DietRequest (app/models/requests.py): pydantic checks the fields in     *)
(* declaration order; per field the Field(gt=, lt=) / Literal constraint   *)
(* first, and the @field_validator only on a value that passed it.  Every  *)
(* failing field contributes one error.                                    *)
(***************************************************************************)
AgeGt == 8
AgeLt == 120
HeightGt == 50
HeightLt == 300
WeightGt == 25000
WeightLt == 300000

Genders == {"male", "female"}
ActivityLevels ==
    {"sedentary", "lightly_active", "moderately_active", "very_active",
     "extra_active"}
Goals == {"cut", "bulk", "maintain"}

\* an entry of RequestValidationError.errors()
Error(field, type, msg) ==
    [loc |-> <<"body", field>>, type |-> type, msg |-> msg]

\* the limits of Field(gt=, lt=) and the choices of Literal[...] as pydantic
\* prints them in its messages
LimitText ==
    [age    |-> [gt |-> "8",   lt |-> "120"],
     height |-> [gt |-> "0.5", lt |-> "3"],
     weight |-> [gt |-> "25",  lt |-> "300"]]

LiteralText ==
    [gender         |-> "'male' or 'female'",
     activity_level |-> "'sedentary', 'lightly_active', 'moderately_active', 'very_active' or 'extra_active'",
     goal           |-> "'cut', 'bulk' or 'maintain'"]

\* Field(gt=lo, lt=hi) on a number
FieldRange(field, v, lo, hi) ==
    IF ~(v > lo)
    THEN <<Error(field, "greater_than",
                 "Input should be greater than " \o LimitText[field].gt)>>
    ELSE IF ~(v < hi)
    THEN <<Error(field, "less_than",
                 "Input should be less than " \o LimitText[field].lt)>>
    ELSE <<>>

\* Literal[...] on a string
FieldLiteral(field, v, allowed) ==
    IF v \in allowed THEN <<>>
    ELSE <<Error(field, "literal_error", "Input should be " \o LiteralText[field])>>

\* validate_height: raises ValueError outside [0.5, 3.0]
validate_height(v) ==
    IF v < 50 \/ v > 300
    THEN <<Error("height", "value_error",
                 "Value error, Height must be between 0.5 and 3.0 meters")>>
    ELSE <<>>

\* validate_weight: raises ValueError outside [25, 300]
validate_weight(v) ==
    IF v < 25000 \/ v > 300000
    THEN <<Error("weight", "value_error",
                 "Value error, Weight must be between 25 and 300 kilograms")>>
    ELSE <<>>

\* faulty variant of HeightErrors: height: float, with no bound and no validator
HeightErrorsUnchecked(v) == <<>>

HeightErrors(v) ==
    LET e == FieldRange("height", v, HeightGt, HeightLt)
    IN  IF e # <<>> THEN e ELSE validate_height(v)

WeightErrors(v) ==
    LET e == FieldRange("weight", v, WeightGt, WeightLt)
    IN  IF e # <<>> THEN e ELSE validate_weight(v)

ValidationErrors(d) ==
    FieldRange("age", d.age, AgeGt, AgeLt)
    \o FieldLiteral("gender", d.gender, Genders)
    \o HeightErrors(d.height)
    \o WeightErrors(d.weight)
    \o FieldLiteral("activity_level", d.activity_level, ActivityLevels)
    \o FieldLiteral("goal", d.goal, Goals)

\* DietRequest(**d): the validated object, or RequestValidationError
DietRequest(d) ==
    LET errors == ValidationErrors(d)
    IN  IF errors = <<>> THEN Return(d)
        ELSE Raise([class |-> "RequestValidationError", errors |-> errors])

(***************************************************************************)
(* The route (app/routes/diet_routes.py) and the application's exception   *)
(* handlers (app/exceptions, registered in app/main.py).                   *)
(***************************************************************************)
HTTPException(status_code, detail) ==
    [class |-> "HTTPException", status_code |-> status_code, detail |-> detail]

\* create_diet_plan(user): DietPlanResponse, or HTTPException(500) for any
\* exception raised inside the try block
create_diet_plan(u) ==
    LET plan_data == get_complete_plan(u)
    IN  IF plan_data.kind = "raise"
        THEN Raise(HTTPException(500, "Failed to generate diet plan"))
        ELSE Return([success |-> TRUE, data |-> plan_data.value])

JSONResponse(status_code, content) ==
    [status_code |-> status_code, content |-> content]

\* sep.join(parts)
RECURSIVE Join(_, _)
Join(sep, parts) ==
    IF parts = <<>> THEN ""
    ELSE IF Len(parts) = 1 THEN parts[1]
    ELSE parts[1] \o sep \o Join(sep, Tail(parts))

validation_exception_handler(exc) ==
    LET errors == exc.errors
        first_error == errors[1]
        error_details ==
            IF errors # <<>>
            THEN [field |-> Join(" -> ", first_error.loc),
                  issue |-> first_error.msg,
                  type  |-> first_error.type]
            ELSE EmptyDict
    IN  JSONResponse(422, [success |-> FALSE,
                           error   |-> "ValidationError",
                           message |-> "Invalid input data provided",
                           details |-> error_details])

diet_service_exception_handler(exc) ==
    JSONResponse(400, [success |-> FALSE,
                       error   |-> exc.class,
                       message |-> exc.message,
                       details |-> exc.details])

general_exception_handler(exc) ==
    JSONResponse(500, [success |-> FALSE,
                       error   |-> "InternalServerError",
                       message |-> "An unexpected error occurred. Please try again later.",
                       details |-> EmptyDict])

\* FastAPI's own handler of HTTPException
http_exception_handler(exc) ==
    JSONResponse(exc.status_code, [detail |-> exc.detail])

DietServiceExceptions ==
    {"DietServiceException", "ValidationException", "CalculationException"}

\* app.add_exception_handler(...): the handler of the exception's class
HandleException(exc) ==
    IF exc.class = "RequestValidationError" THEN validation_exception_handler(exc)
    ELSE IF exc.class \in DietServiceExceptions THEN diet_service_exception_handler(exc)
    ELSE IF exc.class = "HTTPException" THEN http_exception_handler(exc)
    ELSE general_exception_handler(exc)

\* the response to the route called with the DietRequest object u
RouteResponse(u) ==
    LET r == create_diet_plan(u)
    IN  IF r.kind = "raise" THEN HandleException(r.exc)
        ELSE JSONResponse(200, r.value)

\* the response to POST /diet-plan with body d
PostResponse(d) ==
    LET v == DietRequest(d)
    IN  IF v.kind = "raise" THEN HandleException(v.exc)
        ELSE RouteResponse(v.value)

(***************************************************************************)
(* Operations.  Slot i holds one caller: its DietRequest object, the       *)
(* DietService instance it built, and what its last call gave.             *)
(***************************************************************************)
NoCall == [op |-> "none"]

Called(op, out) == [op |-> op, out |-> out]

\* faulty variant of DietServiceInit: DietService.user = user, a class attribute that
\* every instance reads
DietServiceInitShared(i, u) == [j \in Inst |-> u]

\* DietService.__init__(self, user): self.user = user, on the instance of slot i
DietServiceInit(i, u) == [user EXCEPT ![i] = u]

\* a caller builds a DietRequest object d, validated or not (model_construct)
NewRequest(i, d) ==
    /\ request' = [request EXCEPT ![i] = d]
    /\ user' = [user EXCEPT ![i] = None]
    /\ ret' = [ret EXCEPT ![i] = NoCall]
    /\ UNCHANGED <<returned, pc>>

\* service = DietService(user)
Construct(i) ==
    /\ request[i] # None
    /\ user' = DietServiceInit(i, request[i])
    /\ ret' = [ret EXCEPT ![i] = NoCall]
    /\ UNCHANGED <<request, returned, pc>>

\* DietRequest(**data) on the data of slot i
ValidateRequest(i) ==
    /\ request[i] # None
    /\ ret' = [ret EXCEPT ![i] = Called("DietRequest", DietRequest(request[i]))]
    /\ UNCHANGED <<request, user, returned, pc>>

CalculateBmi(i) ==
    /\ user[i] # None
    /\ ret' = [ret EXCEPT ![i] = Called("calculate_bmi", calculate_bmi(user[i]))]
    /\ UNCHANGED <<request, user, returned, pc>>

CalculateBmr(i) ==
    /\ user[i] # None
    /\ ret' = [ret EXCEPT ![i] = Called("calculate_bmr", Return(calculate_bmr(user[i])))]
    /\ UNCHANGED <<request, user, returned, pc>>

CalculateTdee(i) ==
    /\ user[i] # None
    /\ ret' = [ret EXCEPT ![i] = Called("calculate_tdee", Return(calculate_tdee(user[i])))]
    /\ UNCHANGED <<request, user, returned, pc>>

CalculateCalories(i) ==
    /\ user[i] # None
    /\ ret' = [ret EXCEPT ![i] =
                  Called("calculate_calories", Return(calculate_calories(user[i])))]
    /\ UNCHANGED <<request, user, returned, pc>>

CalculateProtein(i) ==
    /\ user[i] # None
    /\ ret' = [ret EXCEPT ![i] =
                  Called("calculate_protein", Return(calculate_protein(user[i])))]
    /\ UNCHANGED <<request, user, returned, pc>>

GenerateDietChart(i) ==
    /\ user[i] # None
    /\ ret' = [ret EXCEPT ![i] =
                  Called("generate_diet_chart", Return(generate_diet_chart(user[i])))]
    /\ UNCHANGED <<request, user, returned, pc>>

\* the plans seen so far, with the plan `out` gave for profile d added
Observe(d, out) ==
    IF out.kind = "return"
    THEN returned \cup {[profile |-> d, plan |-> out.value]}
    ELSE returned

GetCompletePlan(i) ==
    /\ user[i] # None
    /\ LET out == get_complete_plan(user[i])
       IN  /\ ret' = [ret EXCEPT ![i] = Called("get_complete_plan", out)]
           /\ returned' = Observe(request[i], out)
    /\ UNCHANGED <<request, user, pc>>

\* the route run in slot i on the DietRequest object u: lines 140-161 and the
\* handler of what it raises
Serve(i, op, u) ==
    LET service == DietServiceInit(i, u)
        response == RouteResponse(service[i])
    IN  /\ user' = service
        /\ ret' = [ret EXCEPT ![i] = Called(op, response)]
        /\ returned' = Observe(u, get_complete_plan(service[i]))

\* create_diet_plan(user) called with the object of slot i
CreateDietPlan(i) ==
    /\ request[i] # None
    /\ Serve(i, "create_diet_plan", request[i])
    /\ UNCHANGED <<request, pc>>

\* POST /diet-plan with the data of slot i as body: validation, then the route
PostDietPlan(i) ==
    /\ request[i] # None
    /\ LET v == DietRequest(request[i])
       IN  IF v.kind = "raise"
           THEN /\ ret' = [ret EXCEPT ![i] =
                              Called("POST /diet-plan", PostResponse(request[i]))]
                /\ UNCHANGED <<user, returned>>
           ELSE Serve(i, "POST /diet-plan", v.value)
    /\ UNCHANGED <<request, pc>>

(***************************************************************************)
(* POST /diet-plan step by step.  pc[i] is "idle" (no request), "received" *)
(* (body read), "validated" (FastAPI built the DietRequest and is about to *)
(* call the route), "constructed" (line 144 done) or "done" (answered).    *)
(* The route is a coroutine without await, so one event loop runs lines    *)
(* 140-161 in one piece; the steps are kept apart here, which only adds    *)
(* interleavings (a threaded or multi-worker deployment).                  *)
(***************************************************************************)
\* a client posts the body d in slot i
PostReceive(i, d) ==
    /\ pc[i] \in {"idle", "done"}
    /\ request' = [request EXCEPT ![i] = d]
    /\ user' = [user EXCEPT ![i] = None]
    /\ ret' = [ret EXCEPT ![i] = NoCall]
    /\ pc' = [pc EXCEPT ![i] = "received"]
    /\ UNCHANGED returned

\* faulty variant of PostValidate: the route declared with user: dict, the body
\* handed to it as it came
PostValidateSkipped(i) ==
    /\ pc[i] = "received"
    /\ pc' = [pc EXCEPT ![i] = "validated"]
    /\ UNCHANGED <<request, user, ret, returned>>

\* FastAPI builds the route's parameter user: DietRequest from the body; a
\* RequestValidationError is answered by its handler and the route is not run
PostValidate(i) ==
    /\ pc[i] = "received"
    /\ LET v == DietRequest(request[i])
       IN  IF v.kind = "raise"
           THEN /\ ret' = [ret EXCEPT ![i] =
                              Called("POST /diet-plan", HandleException(v.exc))]
                /\ pc' = [pc EXCEPT ![i] = "done"]
           ELSE /\ pc' = [pc EXCEPT ![i] = "validated"]
                /\ UNCHANGED ret
    /\ UNCHANGED <<request, user, returned>>

\* faulty variant of RouteConstruct: one module-level service shared by the
\* requests, service.user = user
RouteConstructShared(i) ==
    /\ pc[i] = "validated"
    /\ user' = [j \in Inst |-> request[i]]
    /\ pc' = [pc EXCEPT ![i] = "constructed"]
    /\ UNCHANGED <<request, ret, returned>>

\* line 144: service = DietService(user); user holds the values of the body
RouteConstruct(i) ==
    /\ pc[i] = "validated"
    /\ user' = DietServiceInit(i, request[i])
    /\ pc' = [pc EXCEPT ![i] = "constructed"]
    /\ UNCHANGED <<request, ret, returned>>

\* lines 147-161: plan_data = service.get_complete_plan(), and the response
RoutePlan(i) ==
    /\ pc[i] = "constructed"
    /\ ret' = [ret EXCEPT ![i] = Called("POST /diet-plan", RouteResponse(user[i]))]
    /\ returned' = Observe(request[i], get_complete_plan(user[i]))
    /\ pc' = [pc EXCEPT ![i] = "done"]
    /\ UNCHANGED <<request, user>>

(***************************************************************************)
(* Inputs.                                                                 *)
(***************************************************************************)
Profile(age, gender, height, weight, activity_level, goal) ==
    [age |-> age, gender |-> gender, height |-> height, weight |-> weight,
     activity_level |-> activity_level, goal |-> goal]

\* the example of the route's documentation
Example == Profile(25, "male", 175, 70000, "moderately_active", "maintain")

GridProfiles ==
    { Profile(a, g, h, w, l, o) :
        a \in {9, 25, 119}, g \in Genders, h \in {52, 175, 200, 298},
        w \in {25001, 70000, 100000, 299999},
        l \in ActivityLevels, o \in Goals }

\* BMI on and next to the bracket bounds 18.5, 25 and 30 (height 2 m)
BmiProfiles ==
    { [Example EXCEPT !.height = 200, !.weight = w] :
        w \in {73999, 74000, 99996, 100000, 119999, 120000} }

\* ages, heights and weights on, next to and beyond the bounds of DietRequest
BoundProfiles ==
    { Profile(a, "male", h, w, l, "maintain") :
        a \in {8, 9, 25, 119, 120}, h \in {0, 49, 50, 175, 300, 301},
        w \in {24999, 25000, 70000, 300000, 300001},
        l \in {"sedentary", "moderately_active"} }

\* the example with a string that is not one of the literals of DietRequest
LiteralProfiles ==
    { [Example EXCEPT !.gender = g] : g \in {"MALE", "Female", "other"} }
    \cup { [Example EXCEPT !.activity_level = l] :
             l \in {"SEDENTARY", "Very_Active", "couch"} }
    \cup { [Example EXCEPT !.goal = o] : o \in {"CUT", "Bulk", "keto"} }

AllProfiles == GridProfiles \cup BmiProfiles \cup BoundProfiles \cup LiteralProfiles

\* n/d is a decimal tie of round()
DecimalTie(n, d) == 2 * (n % d) = d

\* height and weight are binary fractions: the floats hold them exactly, and
\* so every step of the BMR formula
ExactInputs(u) == u.height % 25 = 0 /\ u.weight % 125 = 0

\* no round(x, n) of the calculations meets a decimal tie on a float that is
\* not exactly the tie
TieFree(u) ==
    /\ DecimalTie(BmrThousandths(u), 100) => ExactInputs(u)
    /\ ~DecimalTie(calculate_bmr(u)
                     * DictGet(ACTIVITY_MULTIPLIERS, Lower(u.activity_level),
                               DefaultActivityMultiplier), 1000)
    /\ ~DecimalTie(u.weight * DictGet(PROTEIN_MULTIPLIERS, Lower(u.goal),
                                      DefaultProteinMultiplier), 1000)
    /\ u.height # 0 => ~DecimalTie(1000 * u.weight, u.height * u.height)

Profiles == { p \in AllProfiles : TieFree(p) }

SmallProfiles ==
    { Example,
      Profile(40, "female", 200, 99996, "lightly_active", "cut"),
      [Example EXCEPT !.age = 8] }

(***************************************************************************)
(* Spec: MaxInst callers building requests and services and calling them,  *)
(* directly and over HTTP, in any interleaving.                            *)
(***************************************************************************)
Init ==
    /\ request = [i \in Inst |-> None]
    /\ user = [i \in Inst |-> None]
    /\ ret = [i \in Inst |-> NoCall]
    /\ returned = {}
    /\ pc = [i \in Inst |-> "idle"]

Next ==
    \E i \in Inst :
        \/ \E d \in SmallProfiles : NewRequest(i, d)
        \/ Construct(i)
        \/ GetCompletePlan(i)
        \/ PostDietPlan(i)

Spec == Init /\ [][Next]_vars

(***************************************************************************)
(* SpecCalc: every operation applied to one DietRequest object drawn from  *)
(* Profiles, with a DietService built on it.                               *)
(***************************************************************************)
InitCalc ==
    /\ \E p \in Profiles :
          /\ request = [i \in Inst |-> IF i = 1 THEN p ELSE None]
          /\ user = [i \in Inst |-> IF i = 1 THEN p ELSE None]
    /\ ret = [i \in Inst |-> NoCall]
    /\ returned = {}
    /\ pc = [i \in Inst |-> "idle"]

NextCalc ==
    \/ ValidateRequest(1)
    \/ CalculateBmi(1)
    \/ CalculateBmr(1)
    \/ CalculateTdee(1)
    \/ CalculateCalories(1)
    \/ CalculateProtein(1)
    \/ GenerateDietChart(1)
    \/ GetCompletePlan(1)
    \/ CreateDietPlan(1)
    \/ PostDietPlan(1)

SpecCalc == InitCalc /\ [][NextCalc]_vars

(***************************************************************************)
(* SpecPost: MaxInst clients posting bodies to POST /diet-plan, their      *)
(* requests handled step by step in any interleaving.                      *)
(***************************************************************************)
PostBodies ==
    SmallProfiles
    \cup { Profile(30, "female", 160, 55000, "sedentary", "bulk"),
           [Example EXCEPT !.height = 50],
           [Example EXCEPT !.weight = 300001],
           [Example EXCEPT !.goal = "keto"] }

NextPost ==
    \E i \in Inst :
        \/ \E d \in PostBodies : PostReceive(i, d)
        \/ PostValidate(i)
        \/ RouteConstruct(i)
        \/ RoutePlan(i)

SpecPost == Init /\ [][NextPost]_vars

(***************************************************************************)
(* The claims.  What the specification says is written here from its own   *)
(* words (its formulas, its tables, its brackets), in the units of the     *)
(* model, and compared with what the operations returned.                  *)
(***************************************************************************)
\* slot i last called op, and the call returned a value
Returned(i, op) == ret[i].op = op /\ ret[i].out.kind = "return"

\* the profile is accepted by DietRequest validation
Accepted(u) == DietRequest(u).kind = "return"

\* v / scale is x / scale rounded to the nearest multiple of 1 (x, v integers)
Nearest(v, x, scale) == 2 * Abs(v * scale - x) <= scale

\* the specification's Mifflin-St Jeor value, in thousandths
SpecBmr(u) ==
    IF u.gender = "male"
    THEN 10 * u.weight + 6250 * u.height - 5000 * u.age + 5000
    ELSE 10 * u.weight + 6250 * u.height - 5000 * u.age - 161000

\* the specification's activity multipliers, in fortieths (1.2 = 48/40)
SpecActivity ==
    [sedentary |-> 48, lightly_active |-> 55, moderately_active |-> 62,
     very_active |-> 69, extra_active |-> 76]

SpecActivityOf(level) ==
    IF level \in DOMAIN SpecActivity THEN SpecActivity[level] ELSE 62

\* the specification's goal adjustments and protein multipliers (tenths)
SpecAdjustment == [maintain |-> 0, cut |-> -500, bulk |-> 300]

SpecProtein == [maintain |-> 16, cut |-> 22, bulk |-> 18]

MealKeys == {"breakfast", "lunch", "snacks", "dinner"}

----------------------------------------------------------------------------
(* C1 as stated: for every accepted profile calculate_calories returns     *)
(* (Mifflin-St Jeor BMR x activity multiplier + goal adjustment) rounded   *)
(* to the nearest integer.  Units: 1/40000.                                *)
C1_CaloriesRoundExactTdee ==
    \A i \in Inst :
        (Returned(i, "calculate_calories") /\ Accepted(user[i])) =>
            Nearest(ret[i].out.value,
                    SpecBmr(user[i]) * SpecActivity[user[i].activity_level]
                        + 40000 * SpecAdjustment[user[i].goal],
                    40000)

(* C1 amended: for every accepted profile calculate_calories returns       *)
(* (the TDEE calculate_tdee returns, itself rounded to one decimal, + the  *)
(* goal adjustment: maintain 0, cut -500, bulk +300) rounded to the        *)
(* nearest integer, a tie to the even one.                                 *)
C1_CaloriesRoundReturnedTdee ==
    \A i \in Inst :
        (Returned(i, "calculate_calories") /\ Accepted(user[i])) =>
            LET x == calculate_tdee(user[i]) + 10 * SpecAdjustment[user[i].goal]
                v == ret[i].out.value
            IN  /\ Nearest(v, x, 10)
                /\ 2 * Abs(10 * v - x) = 10 => v % 2 = 0

\* C1 witness: a cut target whose one-decimal TDEE ends in .5, where the
\* nearest integer of the exact value is another one
C1_Witness ==
    \E i \in Inst :
        /\ Returned(i, "calculate_calories") /\ Accepted(user[i])
        /\ user[i].goal = "cut"
        /\ calculate_tdee(user[i]) % 10 = 5
        /\ ~Nearest(ret[i].out.value,
                    SpecBmr(user[i]) * SpecActivity[user[i].activity_level]
                        + 40000 * SpecAdjustment[user[i].goal],
                    40000)

----------------------------------------------------------------------------
(* C2 as stated: validation accepts height 0.5 and 3.0, weight 25 and 300, *)
(* age 9 and 119, each with the other fields valid, and rejects age 8 and  *)
(* height 0.49.                                                            *)
C2_BoundariesAccepted ==
    \A i \in Inst :
        ret[i].op = "DietRequest" =>
            LET d == request[i]
                ok == ret[i].out.kind = "return"
            IN  /\ (d.height \in {50, 300} /\ Accepted([d EXCEPT !.height = 175])) => ok
                /\ (d.weight \in {25000, 300000} /\ Accepted([d EXCEPT !.weight = 70000])) => ok
                /\ (d.age \in {9, 119} /\ Accepted([d EXCEPT !.age = 25])) => ok
                /\ (d.age = 8 \/ d.height = 49) => ~ok

----------------------------------------------------------------------------
(* C3: the category calculate_bmi returns is the bracket of the BMI value  *)
(* weight / height^2, closed on the left and open on the right:            *)
(* [0, 18.5) Underweight, [18.5, 25) Normal weight, [25, 30) Overweight,   *)
(* [30, inf) Obese; so 18.5 and 24.999 are Normal weight, 25.0 Overweight. *)
(* BMI = 10 * grams / cm^2, compared in tenths.                            *)
C3_BmiBrackets ==
    \A i \in Inst :
        Returned(i, "calculate_bmi") =>
            LET n == 100 * user[i].weight
                d == user[i].height * user[i].height
                c == ret[i].out.value.category
            IN  /\ (0 <= n /\ n < 185 * d) => c = "Underweight"
                /\ (185 * d <= n /\ n < 250 * d) => c = "Normal weight"
                /\ (250 * d <= n /\ n < 300 * d) => c = "Overweight"
                /\ 300 * d <= n => c = "Obese"

\* C3 witness: a BMI of exactly 24.999 (99.996 kg, 2 m) came out Normal weight
C3_Witness ==
    \E i \in Inst :
        /\ Returned(i, "calculate_bmi")
        /\ user[i].height = 200 /\ user[i].weight = 99996
        /\ ret[i].out.value.category = "Normal weight"

----------------------------------------------------------------------------
(* C4: for every accepted profile the BMI value calculate_bmi returns      *)
(* differs from weight / height^2 by at most 0.01.                         *)
C4_BmiValueTolerance ==
    \A i \in Inst :
        (Returned(i, "calculate_bmi") /\ Accepted(user[i])) =>
            LET d == user[i].height * user[i].height
            IN  Abs(ret[i].out.value.value * d - 1000 * user[i].weight) <= d

\* C4 witness: an accepted profile whose BMI has more than two decimals
C4_Witness ==
    \E i \in Inst :
        /\ Returned(i, "calculate_bmi") /\ Accepted(user[i])
        /\ (1000 * user[i].weight) % (user[i].height * user[i].height) # 0

----------------------------------------------------------------------------
(* C5 as stated: for every accepted profile calculate_bmr returns the      *)
(* Mifflin-St Jeor value itself.                                           *)
C5_BmrIsFormula ==
    \A i \in Inst :
        (Returned(i, "calculate_bmr") /\ Accepted(user[i])) =>
            100 * ret[i].out.value = SpecBmr(user[i])

(* C5 amended: for every accepted profile calculate_bmr returns the        *)
(* Mifflin-St Jeor value (male +5, female -161) rounded to one decimal.    *)
C5_BmrIsFormulaRounded ==
    \A i \in Inst :
        (Returned(i, "calculate_bmr") /\ Accepted(user[i])) =>
            Nearest(ret[i].out.value, SpecBmr(user[i]), 100)

\* C5 witness: a female profile whose formula value has two decimals
C5_Witness ==
    \E i \in Inst :
        /\ Returned(i, "calculate_bmr") /\ Accepted(user[i])
        /\ user[i].gender = "female"
        /\ SpecBmr(user[i]) % 100 # 0

----------------------------------------------------------------------------
(* C6 as stated: on a profile whose other fields validation accepts,      *)
(* calculate_tdee returns BMR times the activity multiplier of the         *)
(* activity level, 1.55 when the level is not one of the five.             *)
(* Units: 1/40000.                                                         *)
C6_TdeeIsProduct ==
    \A i \in Inst :
        (/\ Returned(i, "calculate_tdee")
         /\ Accepted([user[i] EXCEPT !.activity_level = "sedentary"])) =>
            4000 * ret[i].out.value
                = SpecBmr(user[i]) * SpecActivityOf(user[i].activity_level)

(* C6 amended: calculate_tdee returns (the BMR calculate_bmr returns,      *)
(* itself rounded to one decimal, times the activity multiplier of the     *)
(* lower-cased activity level, 1.55 when that is not one of the five)      *)
(* rounded to one decimal.  Units: 1/400.                                  *)
C6_TdeeIsProductRounded ==
    \A i \in Inst :
        Returned(i, "calculate_tdee") =>
            Nearest(ret[i].out.value,
                    calculate_bmr(user[i])
                        * SpecActivityOf(Lower(user[i].activity_level)),
                    40)

\* C6 witness: a level that is none of the five got 1.55, and the product
\* had to be rounded
C6_Witness ==
    \E i \in Inst :
        /\ Returned(i, "calculate_tdee")
        /\ Lower(user[i].activity_level) \notin DOMAIN SpecActivity
        /\ (calculate_bmr(user[i]) * 62) % 40 # 0

----------------------------------------------------------------------------
(* C7: for every accepted profile calculate_protein returns weight times   *)
(* the goal multiplier (maintain 1.6, cut 2.2, bulk 1.8) rounded to one    *)
(* decimal; 70 kg with goal maintain gives 112.0.                          *)
C7_ProteinRounded ==
    \A i \in Inst :
        (Returned(i, "calculate_protein") /\ Accepted(user[i])) =>
            /\ Nearest(ret[i].out.value,
                       user[i].weight * SpecProtein[user[i].goal], 1000)
            /\ (user[i].weight = 70000 /\ user[i].goal = "maintain")
                  => ret[i].out.value = 1120

\* C7 witness: 70 kg, maintain, 112.0
C7_Witness ==
    \E i \in Inst :
        /\ Returned(i, "calculate_protein") /\ Accepted(user[i])
        /\ user[i].weight = 70000 /\ user[i].goal = "maintain"
        /\ ret[i].out.value = 1120

----------------------------------------------------------------------------
\* a chart with exactly the four meals, each a non-empty list
FourMeals(chart) ==
    /\ DOMAIN chart = MealKeys
    /\ \A k \in MealKeys : Len(chart[k]) > 0

(* C8 as stated: generate_diet_chart returns for each of the goals cut,    *)
(* bulk and maintain a fixed table with exactly the four keys, each a      *)
(* non-empty list, and for any other goal string the maintain table.       *)
C8_ChartOfGoal ==
    \A i \in Inst :
        Returned(i, "generate_diet_chart") =>
            /\ FourMeals(ret[i].out.value)
            /\ ret[i].out.value =
                  IF user[i].goal \in Goals THEN meal_plans[user[i].goal]
                  ELSE meal_plans["maintain"]

(* C8 amended: generate_diet_chart returns for each goal that is cut, bulk *)
(* or maintain once lower-cased that goal's fixed table with exactly the   *)
(* four keys, each a non-empty list, and for any other goal string the     *)
(* maintain table.                                                         *)
C8_ChartOfLowerGoal ==
    \A i \in Inst :
        Returned(i, "generate_diet_chart") =>
            /\ FourMeals(ret[i].out.value)
            /\ ret[i].out.value =
                  IF Lower(user[i].goal) \in Goals
                  THEN meal_plans[Lower(user[i].goal)]
                  ELSE meal_plans["maintain"]
            /\ \A g \in Goals \ {"maintain"} :
                  Lower(user[i].goal) = g <=> ret[i].out.value = meal_plans[g]

\* C8 witness: a goal that is none of the three got the maintain table
C8_Witness ==
    \E i \in Inst :
        /\ Returned(i, "generate_diet_chart")
        /\ Lower(user[i].goal) \notin Goals
        /\ ret[i].out.value = meal_plans["maintain"]

----------------------------------------------------------------------------
(* C9: get_complete_plan called twice with identical profiles, on one      *)
(* instance or on two, with any other requests served in between, gives    *)
(* identical output: whatever was returned so far, equal profiles got      *)
(* equal plans.                                                            *)
C9_SameProfileSamePlan ==
    \A x \in returned : \A y \in returned :
        x.profile = y.profile => x.plan = y.plan

\* C9 witness: two slots hold the same profile and both got its plan, after
\* a plan for another profile was returned
C9_Witness ==
    \E i \in Inst : \E j \in Inst \ {i} :
        /\ request[i] = request[j]
        /\ Returned(i, "get_complete_plan") /\ Returned(j, "get_complete_plan")
        /\ ret[i].out = ret[j].out
        /\ \E x \in returned : x.profile # request[i]

----------------------------------------------------------------------------
(* C10 as stated: a CalculationException raised by the core while the      *)
(* route serves a request reaches the client as a 400 response carrying    *)
(* the error class name, the message and the details.                      *)
C10_CalculationErrorIs400 ==
    \A i \in Inst :
        (/\ \/ ret[i].op = "create_diet_plan"
            \/ ret[i].op = "POST /diet-plan" /\ Accepted(request[i])
         /\ get_complete_plan(user[i]).kind = "raise") =>
            LET exc == get_complete_plan(user[i]).exc
            IN  ret[i].out = JSONResponse(400, [success |-> FALSE,
                                                error   |-> "CalculationException",
                                                message |-> exc.message,
                                                details |-> exc.details])

----------------------------------------------------------------------------
\* the methods of DietService
ServiceOps ==
    {"calculate_bmi", "calculate_bmr", "calculate_tdee", "calculate_calories",
     "calculate_protein", "generate_diet_chart", "get_complete_plan"}

(* C11: on every profile DietRequest validation accepts, get_complete_plan *)
(* and each calculation it composes (BMI, BMR, TDEE, calories, protein,    *)
(* diet chart) returns a result and raises nothing, and POST /diet-plan    *)
(* with that profile as body answers 200 with success = true and the plan  *)
(* as data.                                                                *)
C11_TotalOnAccepted ==
    \A i \in Inst :
        (user[i] # None /\ Accepted(user[i])) =>
            /\ ret[i].op \in ServiceOps => ret[i].out.kind = "return"
            /\ ret[i].op = "POST /diet-plan" =>
                  /\ ret[i].out.status_code = 200
                  /\ ret[i].out.content.success = TRUE
                  /\ Return(ret[i].out.content.data) = get_complete_plan(user[i])

\* C11 witness: a body with the smallest accepted height of the model and the
\* oldest accepted age was posted and answered 200
C11_Witness ==
    \E i \in Inst :
        /\ user[i] # None /\ Accepted(user[i])
        /\ user[i].height = 52 /\ user[i].age = 119
        /\ ret[i].op = "POST /diet-plan"
        /\ ret[i].out.status_code = 200

----------------------------------------------------------------------------
\* the fields of a Profile, and what the specification allows in each:
\* age 9-119, height 0.5-3.0 m, weight 25-300 kg, the three enumerations
ProfileFields == {"age", "gender", "height", "weight", "activity_level", "goal"}

SpecViolates(d) ==
    \/ d.age < 9 \/ d.age > 119
    \/ d.gender \notin {"male", "female"}
    \/ d.height < 50 \/ d.height > 300
    \/ d.weight < 25000 \/ d.weight > 300000
    \/ d.activity_level \notin DOMAIN SpecActivity
    \/ d.goal \notin DOMAIN SpecAdjustment

(* C12: validation happens before the core is invoked.  A DietService is   *)
(* only ever constructed on a validated body, and only validated bodies    *)
(* get a plan computed; a POST /diet-plan whose body violates a Profile    *)
(* constraint is answered 422 with {success: false, error, message,        *)
(* details} where details carries field (naming a field of the body that   *)
(* is not acceptable) and issue, and no DietService was constructed or     *)
(* called for that request.                                                *)
C12_ValidationBeforeCore ==
    /\ \A i \in Inst :
          /\ user[i] # None => ~SpecViolates(user[i])
          /\ (pc[i] = "done" /\ SpecViolates(request[i])) =>
                LET r == ret[i].out
                IN  /\ r.status_code = 422
                    /\ DOMAIN r.content = {"success", "error", "message", "details"}
                    /\ r.content.success = FALSE
                    /\ r.content.error = "ValidationError"
                    /\ {"field", "issue"} \subseteq DOMAIN r.content.details
                    /\ \E f \in ProfileFields :
                          /\ r.content.details.field = "body -> " \o f
                          /\ ~Accepted([Example EXCEPT ![f] = request[i][f]])
                    /\ user[i] = None
    /\ \A x \in returned : ~SpecViolates(x.profile)

\* C12 witness: a body with age 8 was answered 422 naming the age, with no
\* service constructed for it, while the service of another request stands
C12_Witness ==
    \E i \in Inst : \E j \in Inst \ {i} :
        /\ pc[i] = "done" /\ request[i].age = 8
        /\ ret[i].out.status_code = 422
        /\ ret[i].out.content.details.field = "body -> age"
        /\ user[i] = None
        /\ pc[j] = "constructed"

----------------------------------------------------------------------------
\* the service of a request in flight holds that request's profile, and every
\* answer is the answer its own body gets when it is processed alone
OwnResponse ==
    \A i \in Inst :
        /\ pc[i] = "constructed" => user[i] = request[i]
        /\ pc[i] = "done" => ret[i] = Called("POST /diet-plan", PostResponse(request[i]))

\* a step leaves the service and the response of every other request alone
OthersUntouched ==
    \A j \in Inst :
        (pc'[j] = pc[j]) => (user'[j] = user[j] /\ ret'[j] = ret[j])

(* C13: requests are computed independently.  With MaxInst POST /diet-plan *)
(* requests handled at once in any interleaving of their steps, each       *)
(* response equals the response its own body gets when processed alone,    *)
(* and no step of one request changes the service or the response of       *)
(* another.                                                                *)
C13_RequestsIndependent == []OwnResponse /\ [][OthersUntouched]_vars

\* C13 witness: a request was answered 200 while the service of another
\* request, with another profile, stood constructed
C13_Witness ==
    \E i \in Inst : \E j \in Inst \ {i} :
        /\ pc[i] = "done" /\ ret[i].out.status_code = 200
        /\ pc[j] = "constructed" /\ user[j] # request[i]

----------------------------------------------------------------------------
(* C14: calculate_bmi called on a profile with height zero (validation     *)
(* bypassed) returns no BMI and raises no ZeroDivisionError: it raises a   *)
(* CalculationException whose details carry the height.                    *)
C14_ZeroHeightIsCalculationError ==
    \A i \in Inst :
        (ret[i].op = "calculate_bmi" /\ user[i].height = 0) =>
            /\ ret[i].out.kind = "raise"
            /\ ret[i].out.exc.class = "CalculationException"
            /\ "height" \in DOMAIN ret[i].out.exc.details
            /\ ret[i].out.exc.details.height = user[i].height

\* C14 witness: calculate_bmi was called with height 0 and weight 70 kg, and
\* raised
C14_Witness ==
    \E i \in Inst :
        /\ ret[i].op = "calculate_bmi"
        /\ user[i].height = 0 /\ user[i].weight = 70000
        /\ ret[i].out.kind = "raise"

----------------------------------------------------------------------------
\* the bracket of a BMI given in hundredths: [0, 18.5) Underweight,
\* [18.5, 25) Normal weight, [25, 30) Overweight, [30, inf) Obese
SpecBracket(v) ==
    IF v < 1850 THEN "Underweight"
    ELSE IF v < 2500 THEN "Normal weight"
    ELSE IF v < 3000 THEN "Overweight"
    ELSE "Obese"

\* the lower bounds of the brackets above the first, in hundredths
SpecBracketBounds == {1850, 2500, 3000}

(* C15 as stated: for every accepted profile the category calculate_bmi    *)
(* returns is the bracket of the 2-decimal value it returns.               *)
C15_CategoryOfReportedValue ==
    \A i \in Inst :
        (Returned(i, "calculate_bmi") /\ Accepted(user[i])) =>
            ret[i].out.value.category = SpecBracket(ret[i].out.value.value)

(* C15 amended: for every accepted profile the category calculate_bmi      *)
(* returns is the bracket of the unrounded BMI weight / height^2.  It is   *)
(* the bracket of the 2-decimal value returned, except when rounding       *)
(* lifted the value onto a bracket's lower bound (18.5, 25.0 or 30.0) from *)
(* below: then it is the bracket just below that bound.                    *)
C15_CategoryOfUnroundedValue ==
    \A i \in Inst :
        (Returned(i, "calculate_bmi") /\ Accepted(user[i])) =>
            LET v == ret[i].out.value.value
                d == user[i].height * user[i].height
                lifted == v \in SpecBracketBounds /\ 1000 * user[i].weight < v * d
            IN  ret[i].out.value.category =
                    IF lifted THEN SpecBracket(v - 1) ELSE SpecBracket(v)

\* C15 witness: 99.996 kg at 2 m, BMI 24.999, came out with value 25.0 and
\* category Normal weight
C15_Witness ==
    \E i \in Inst :
        /\ Returned(i, "calculate_bmi") /\ Accepted(user[i])
        /\ ret[i].out.value.value = 2500
        /\ 1000 * user[i].weight < 2500 * user[i].height * user[i].height
        /\ ret[i].out.value.category = "Normal weight"

----------------------------------------------------------------------------
(* C16 as stated: for every profile DietRequest validation accepts, the    *)
(* BMR calculate_bmr returns, the TDEE calculate_tdee returns and the      *)
(* calorie target calculate_calories returns are strictly positive.        *)
C16_EnergyPositive ==
    \A i \in Inst :
        (user[i] # None /\ Accepted(user[i])) =>
            /\ Returned(i, "calculate_bmr") => ret[i].out.value > 0
            /\ Returned(i, "calculate_tdee") => ret[i].out.value > 0
            /\ Returned(i, "calculate_calories") => ret[i].out.value > 0

----------------------------------------------------------------------------
(* C17: in every plan get_complete_plan returns for a goal of maintain,    *)
(* cut or bulk, macros.calories minus metabolism.tdee is exactly the goal  *)
(* adjustment (0, -500, +300); hence the target is the maintain target of  *)
(* the same profile plus that adjustment: bulk 300 above, cut 500 below.   *)
C17_CaloriesMinusTdeeIsAdjustment ==
    \A i \in Inst :
        (Returned(i, "get_complete_plan") /\ user[i].goal \in DOMAIN SpecAdjustment) =>
            LET plan == ret[i].out.value
                maintain == get_complete_plan([user[i] EXCEPT !.goal = "maintain"]).value
            IN  /\ plan.macros.calories - plan.metabolism.tdee
                      = SpecAdjustment[user[i].goal]
                /\ plan.macros.calories
                      = maintain.macros.calories + SpecAdjustment[user[i].goal]

\* C17 witness: a cut plan whose one-decimal TDEE ends in .5, so that both
\* round() calls met a tie, with the target 500 below the reported TDEE
C17_Witness ==
    \E i \in Inst :
        /\ Returned(i, "get_complete_plan")
        /\ user[i].goal = "cut"
        /\ calculate_tdee(user[i]) % 10 = 5
        /\ ret[i].out.value.macros.calories
              = ret[i].out.value.metabolism.tdee - 500

=============================================================================
